---- MODULE Spec2Model ----
(***************************************************************************)
(* The robot hunt simulation of src/robot_hunt.py: two robots on the X-Z   *)
(* plane, a field of static square obstacles, line-of-sight by sampling,   *)
(* the hiding-spot heuristic, the fixed-length step with collision         *)
(* rejection, and the "one touch kills" respawn rule.  The adventure game  *)
(* of src/func_game.py (a player, four zones, an inventory) is a second    *)
(* program with its own variables and its own specification, SpecGame.     *)
(*                                                                         *)
(* Arithmetic.  The program computes in floating point.  The model is     *)
(* fixed point: every length and coordinate is an integer number of        *)
(* hundredths of an arena unit (speed 0.2 is 20, size 2.0 is 200, the      *)
(* epsilon 0.01 is 1).  Comparisons and the interpolation of               *)
(* line_intersects_box are exact (both sides are multiplied by the common  *)
(* denominator).  A unit vector is kept to four decimal places, and the    *)
(* product of a unit vector with a length is rounded to the nearest        *)
(* hundredth, as the code rounds after each operation.                     *)
(***************************************************************************)
EXTENDS Integers, Sequences, FiniteSets, TLC

\* ------------------------------------------------------------------------
\* Program constants, in hundredths of an arena unit.
\* ------------------------------------------------------------------------
SIMULATION_AREA == 5000
NUM_OBSTACLES == 5
ROBOT_SPEED == 20
ROBOT_SIZE == 200
SPAWN_SIZE == 200
HIDE_MARGIN == 100
EPSILON == 1
STEPS == 20
OBSTACLE_MARGIN == 1000
MIN_OBSTACLE_SIZE == 500
MAX_OBSTACLE_SIZE == 1000

\* ------------------------------------------------------------------------
\* Integer helpers for the fixed-point arithmetic.
\* ------------------------------------------------------------------------
Abs(n) == IF n < 0 THEN 0 - n ELSE n

Sgn(n) == IF n < 0 THEN 0 - 1 ELSE IF n > 0 THEN 1 ELSE 0

\* n / d rounded to the nearest integer (halves away from zero), d > 0.
RoundDiv(n, d) == Sgn(n) * ((2 * Abs(n) + d) \div (2 * d))

\* floor(sqrt(n)) for 0 <= lo*lo <= n < (hi+1)*(hi+1), by bisection.
RECURSIVE ISqrtIn(_, _, _)
ISqrtIn(n, lo, hi) ==
    IF lo >= hi THEN lo
    ELSE LET mid == (lo + hi + 1) \div 2
         IN  IF mid * mid <= n THEN ISqrtIn(n, mid, hi)
             ELSE ISqrtIn(n, lo, mid - 1)

\* floor(10^k * r / d) for 0 <= r < d, by long division (no overflow for
\* d below 2^31 / 10).
RECURSIVE Frac(_, _, _, _)
Frac(acc, r, d, k) ==
    IF k = 0 THEN acc
    ELSE Frac(10 * acc + ((10 * r) \div d), (10 * r) % d, d, k - 1)

\* ------------------------------------------------------------------------
\* Vectors: a point or vector is <<x, z>>.
\* ------------------------------------------------------------------------
Sub(a, b) == <<a[1] - b[1], a[2] - b[2]>>

Add(a, b) == <<a[1] + b[1], a[2] + b[2]>>

\* The square of np.linalg.norm(v).
Norm2(v) == v[1] * v[1] + v[2] * v[2]

\* |c| / norm for one component c of a vector of squared norm n2 > 0,
\* in ten-thousandths: the component of v / np.linalg.norm(v).
UnitComp(c, n2) ==
    IF c * c = n2 THEN Sgn(c) * 10000
    ELSE Sgn(c) * ISqrtIn(Frac(0, c * c, n2, 8), 0, 10000)

\* v / np.linalg.norm(v), in ten-thousandths.  v is not the zero vector.
Unit(v) == <<UnitComp(v[1], Norm2(v)), UnitComp(v[2], Norm2(v))>>

\* u * len for a unit vector u (ten-thousandths) and 2*len = len2.
Scaled(u, len2) == <<RoundDiv(u[1] * len2, 20000), RoundDiv(u[2] * len2, 20000)>>

\* ------------------------------------------------------------------------
\* Helper functions of the program.
\* ------------------------------------------------------------------------

\* An obstacle is [position |-> <<x, z>>, size |-> edge]; a robot is
\* [position |-> <<x, z>>, color |-> c, speed |-> s, size |-> edge].
Obstacle(position, size) == [position |-> position, size |-> size]

Robot(position, color) ==
    [position |-> position, color |-> color,
     speed |-> ROBOT_SPEED, size |-> ROBOT_SIZE]

\* Faulty variant: squares whose edges touch count as overlapping.
OverlapsTouching(pos, obs, obj_size) ==
    /\ 2 * Abs(pos[1] - obs.position[1]) <= obs.size + obj_size
    /\ 2 * Abs(pos[2] - obs.position[2]) <= obs.size + obj_size

\* The AABB test of one obstacle: |d| < obs.size / 2 + obj_size / 2 on both
\* axes, with both sides doubled.
Overlaps(pos, obs, obj_size) ==
    /\ 2 * Abs(pos[1] - obs.position[1]) < obs.size + obj_size
    /\ 2 * Abs(pos[2] - obs.position[2]) < obs.size + obj_size

collides_with_obstacles(pos, obstacleList, obj_size) ==
    \E k \in 1..Len(obstacleList) : Overlaps(pos, obstacleList[k], obj_size)

\* 40 * (p1 + (p2 - p1) * (i / steps)): the i-th sample, times 2 * STEPS.
SamplePoint(p1, p2, i) ==
    <<2 * STEPS * p1[1] + 2 * (p2[1] - p1[1]) * i,
      2 * STEPS * p1[2] + 2 * (p2[2] - p1[2]) * i>>

\* Faulty variant: range(steps) instead of range(steps + 1), the sample at p2 is
\* never taken.
line_intersects_box_open_end(p1, p2, box_center, box_size) ==
    LET left   == 2 * box_center[1] - box_size
        right  == 2 * box_center[1] + box_size
        top    == 2 * box_center[2] - box_size
        bottom == 2 * box_center[2] + box_size
        rejected ==
            \/ (2 * p1[1] < left /\ 2 * p2[1] < left)
            \/ (2 * p1[1] > right /\ 2 * p2[1] > right)
            \/ (2 * p1[2] < top /\ 2 * p2[2] < top)
            \/ (2 * p1[2] > bottom /\ 2 * p2[2] > bottom)
    IN  /\ ~rejected
        /\ \E i \in 0..(STEPS - 1) :
              LET point == SamplePoint(p1, p2, i)
              IN  /\ STEPS * left <= point[1] /\ point[1] <= STEPS * right
                  /\ STEPS * top <= point[2] /\ point[2] <= STEPS * bottom

line_intersects_box(p1, p2, box_center, box_size) ==
    LET left   == 2 * box_center[1] - box_size
        right  == 2 * box_center[1] + box_size
        top    == 2 * box_center[2] - box_size
        bottom == 2 * box_center[2] + box_size
        rejected ==
            \/ (2 * p1[1] < left /\ 2 * p2[1] < left)
            \/ (2 * p1[1] > right /\ 2 * p2[1] > right)
            \/ (2 * p1[2] < top /\ 2 * p2[2] < top)
            \/ (2 * p1[2] > bottom /\ 2 * p2[2] > bottom)
    IN  /\ ~rejected
        /\ \E i \in 0..STEPS :
              LET point == SamplePoint(p1, p2, i)
              IN  /\ STEPS * left <= point[1] /\ point[1] <= STEPS * right
                  /\ STEPS * top <= point[2] /\ point[2] <= STEPS * bottom

can_see(self, enemy, obstacleList) ==
    \A k \in 1..Len(obstacleList) :
        ~line_intersects_box(self.position, enemy.position,
                             obstacleList[k].position, obstacleList[k].size)

\* The candidate hiding spot behind obs as seen from the enemy:
\* obs.position + to_obs / norm * (obs.size / 2 + self.size / 2 + 1.0).
Candidate(self, enemy, obs) ==
    Add(obs.position,
        Scaled(Unit(Sub(obs.position, enemy.position)),
               obs.size + self.size + 2 * HIDE_MARGIN))

\* Faulty variant: the comparison is reversed, the farthest candidate is kept.
RECURSIVE HidingLoopFarthest(_, _, _, _, _)
HidingLoopFarthest(self, enemy, obstacleList, k, best) ==
    IF k > Len(obstacleList) THEN best
    ELSE LET obs == obstacleList[k]
         IN  IF Norm2(Sub(obs.position, enemy.position)) = 0
             THEN HidingLoopFarthest(self, enemy, obstacleList, k + 1, best)
             ELSE LET candidate == Candidate(self, enemy, obs)
                      d == Norm2(Sub(candidate, self.position))
                  IN  IF ~best[1] \/ d > best[3]
                      THEN HidingLoopFarthest(self, enemy, obstacleList, k + 1,
                                              <<TRUE, candidate, d>>)
                      ELSE HidingLoopFarthest(self, enemy, obstacleList, k + 1,
                                              best)

\* The loop of find_hiding_spot from obstacle k on; best is
\* <<found, best_spot, best_distance squared>>.
RECURSIVE HidingLoop(_, _, _, _, _)
HidingLoop(self, enemy, obstacleList, k, best) ==
    IF k > Len(obstacleList) THEN best
    ELSE LET obs == obstacleList[k]
         IN  IF Norm2(Sub(obs.position, enemy.position)) = 0
             THEN HidingLoop(self, enemy, obstacleList, k + 1, best)
             ELSE LET candidate == Candidate(self, enemy, obs)
                      d == Norm2(Sub(candidate, self.position))
                  IN  IF ~best[1] \/ d < best[3]
                      THEN HidingLoop(self, enemy, obstacleList, k + 1,
                                      <<TRUE, candidate, d>>)
                      ELSE HidingLoop(self, enemy, obstacleList, k + 1, best)

find_hiding_spot(self, enemy, obstacleList) ==
    LET best == HidingLoop(self, enemy, obstacleList, 1, <<FALSE, <<0, 0>>, 0>>)
    IN  IF ~best[1] THEN self.position ELSE best[2]

\* Faulty variant: the robot hides whether or not it sees the enemy.
TargetAlwaysHide(self, enemy, obstacleList) ==
    find_hiding_spot(self, enemy, obstacleList)

\* The target of Robot.update.
Target(self, enemy, obstacleList) ==
    IF can_see(self, enemy, obstacleList) THEN enemy.position
    ELSE find_hiding_spot(self, enemy, obstacleList)

\* Faulty variant: the step is shortened so as not to overshoot a target closer than
\* speed.
StepVectorClamped(self, tgt) ==
    IF Norm2(Sub(tgt, self.position)) < self.speed * self.speed
    THEN Sub(tgt, self.position)
    ELSE Scaled(Unit(Sub(tgt, self.position)), 2 * self.speed)

\* Faulty variant: the direction is taken from the target to the robot.
StepVectorAway(self, tgt) ==
    Scaled(Unit(Sub(self.position, tgt)), 2 * self.speed)

\* direction / dist * self.speed for the direction to the target.
StepVector(self, tgt) ==
    Scaled(Unit(Sub(tgt, self.position)), 2 * self.speed)

\* Faulty variant: the robot moves whenever the target is not exactly its position.
MovedNoEpsilon(self, tgt, obstacleList) ==
    LET direction == Sub(tgt, self.position)
    IN  IF Norm2(direction) > 0
        THEN LET new_position == Add(self.position, StepVector(self, tgt))
             IN  IF ~collides_with_obstacles(new_position, obstacleList, self.size)
                 THEN new_position
                 ELSE self.position
        ELSE self.position

\* Faulty variant: the move is committed without the obstacle test.
MovedUnchecked(self, tgt, obstacleList) ==
    LET direction == Sub(tgt, self.position)
    IN  IF Norm2(direction) > EPSILON * EPSILON
        THEN Add(self.position, StepVector(self, tgt))
        ELSE self.position

\* The position Robot.update leaves the robot at, given its target.
Moved(self, tgt, obstacleList) ==
    LET direction == Sub(tgt, self.position)
    IN  IF Norm2(direction) > EPSILON * EPSILON
        THEN LET new_position == Add(self.position, StepVector(self, tgt))
             IN  IF ~collides_with_obstacles(new_position, obstacleList, self.size)
                 THEN new_position
                 ELSE self.position
        ELSE self.position

\* ------------------------------------------------------------------------
\* Inputs: the obstacle fields and the points random.uniform may return.
\* ------------------------------------------------------------------------

\* How many of the fields and of the sample points the model draws from.
NumFields == 6
NumSamples == 5

\* Obstacle lists.  The first two are fields main() can generate (five
\* obstacles); the others exercise update, can_see and find_hiding_spot on
\* shorter lists, the empty one included.
Fields ==
    << << Obstacle(<<500, 600>>, 500), Obstacle(<<-700, 0>>, 600),
          Obstacle(<<500, -900>>, 800), Obstacle(<<1600, 300>>, 500),
          Obstacle(<<-300, -1500>>, 1000) >>,
       << Obstacle(<<500, 0>>, 500), Obstacle(<<500, 700>>, 500),
          Obstacle(<<-500, -500>>, 700), Obstacle(<<1500, 800>>, 600),
          Obstacle(<<0, 1500>>, 900) >>,
       << >>,
       << Obstacle(<<500, 0>>, 400) >>,
       << Obstacle(<<500, 0>>, 600), Obstacle(<<800, 300>>, 600) >>,
       << Obstacle(<<0, 0>>, 1000), Obstacle(<<1000, 0>>, 1000),
          Obstacle(<<-600, 800>>, 500), Obstacle(<<900, -700>>, 500) >>,
       << Obstacle(<<0, 600>>, 500) >>,
       << Obstacle(<<0, 600>>, 500), Obstacle(<<0, -600>>, 500) >> >>

\* Results of random.uniform(-SIMULATION_AREA, SIMULATION_AREA), pairwise.
SamplePoints ==
    << <<0, 0>>, <<1000, 0>>, <<1, 0>>, <<500, 0>>, <<-600, 800>>,
       <<900, -700>>, <<-1200, -400>>, <<300, 1200>> >>

Min(a, b) == IF a < b THEN a ELSE b

FieldSet == {Fields[k] : k \in 1..Min(NumFields, Len(Fields))}

Samples == {SamplePoints[k] : k \in 1..Min(NumSamples, Len(SamplePoints))}

\* The fields the obstacle loop of main() can produce.
Generated(field) ==
    /\ Len(field) = NUM_OBSTACLES
    /\ \A k \in 1..Len(field) :
          /\ Abs(field[k].position[1]) <= SIMULATION_AREA - OBSTACLE_MARGIN
          /\ Abs(field[k].position[2]) <= SIMULATION_AREA - OBSTACLE_MARGIN
          /\ field[k].size >= MIN_OBSTACLE_SIZE
          /\ field[k].size <= MAX_OBSTACLE_SIZE

\* clock.tick(60), in milliseconds.
DtValues == {16, 17}

\* ------------------------------------------------------------------------
\* The adventure game of src/func_game.py: settings, zones and the pure
\* functions on the game state.  A string is the sequence of its characters.
\* ------------------------------------------------------------------------
SCREEN_WIDTH == 800

SCREEN_HEIGHT == 600

ZONE_MAP == 0

ZONE_FILTER == 1

ZONE_REDUCE == 2

ZONE_COMPOSE == 3

\* The distance one arrow key moves the player.
MOVE_STEP == 10

\* The largest number random.randint(1, ...) draws for a new item's name.
MaxItemNumber == 1

\* 'A' is pressed only while the inventory holds fewer items than this.
MaxItems == 1

\* 'E' is pressed only if no item grows beyond this many characters.
MaxItemLen == 14

Max(a, b) == IF a > b THEN a ELSE b

Player(x, y, inventory) == [x |-> x, y |-> y, inventory |-> inventory]

Rect(left, top, width, height) ==
    [left |-> left, top |-> top, width |-> width, height |-> height]

Zone(zone_type, rect) == [zone_type |-> zone_type, rect |-> rect]

GameState(player, zones, current_zone) ==
    [player |-> player, zones |-> zones, current_zone |-> current_zone]

\* pygame.Rect.collidepoint: the right and bottom edges are outside.
collidepoint(rect, x, y) ==
    /\ rect.left <= x
    /\ x < rect.left + rect.width
    /\ rect.top <= y
    /\ y < rect.top + rect.height

create_zones ==
    LET half_width == SCREEN_WIDTH \div 2
        half_height == SCREEN_HEIGHT \div 2
    IN  << Zone(ZONE_MAP, Rect(0, 0, half_width, half_height)),
           Zone(ZONE_FILTER, Rect(half_width, 0, half_width, half_height)),
           Zone(ZONE_REDUCE, Rect(0, half_height, half_width, half_height)),
           Zone(ZONE_COMPOSE,
                Rect(half_width, half_height, half_width, half_height)) >>

\* The type of the first zone whose rectangle holds the player, else -1.
get_zone_for_player(zones, player) ==
    IF \E k \in 1..Len(zones) : collidepoint(zones[k].rect, player.x, player.y)
    THEN LET first == CHOOSE k \in 1..Len(zones) :
                         /\ collidepoint(zones[k].rect, player.x, player.y)
                         /\ \A j \in 1..(k - 1) :
                               ~collidepoint(zones[j].rect, player.x, player.y)
         IN  zones[first].zone_type
    ELSE -1

\* The player moved by (dx, dy), each coordinate clamped to 0..SCREEN_*.
move_player(player, dx, dy) ==
    [player EXCEPT !.x = Max(0, Min(SCREEN_WIDTH, player.x + dx)),
                   !.y = Max(0, Min(SCREEN_HEIGHT, player.y + dy))]

DigitChars == <<"0", "1", "2", "3", "4", "5", "6", "7", "8", "9">>

\* str(n) for n >= 0.
RECURSIVE Str(_)
Str(n) ==
    IF n < 10
    THEN <<DigitChars[n + 1]>>
    ELSE Str(n \div 10) \o <<DigitChars[(n % 10) + 1]>>

\* f"item{n}"
ItemName(n) == <<"i", "t", "e", "m">> \o Str(n)

\* sub in s, for strings.
Contains(s, sub) ==
    \E k \in 1..(Len(s) - Len(sub) + 1) : SubSeq(s, k, k + Len(sub) - 1) = sub

\* sep.join(items)
RECURSIVE Join(_, _)
Join(items, sep) ==
    IF items = <<>> THEN <<>>
    ELSE IF Len(items) = 1 THEN items[1]
    ELSE items[1] \o sep \o Join(Tail(items), sep)

\* The inventory the effect of a zone type makes of an inventory.
ZoneEffect(zone_type, inventory) ==
    CASE zone_type = ZONE_MAP ->
            [k \in 1..Len(inventory) |->
                inventory[k] \o <<"_", "m", "a", "p", "p", "e", "d">>]
      [] zone_type = ZONE_FILTER ->
            SelectSeq(inventory,
                      LAMBDA item : Contains(item, <<"p", "a", "s", "s">>))
      [] zone_type = ZONE_REDUCE ->
            IF inventory # <<>>
            THEN << <<"r", "e", "d", "u", "c", "e", "d", "(">>
                    \o Join(inventory, <<"+">>) \o <<")">> >>
            ELSE inventory
      [] zone_type = ZONE_COMPOSE ->
            [k \in 1..Len(inventory) |->
                <<"c", "o", "m", "p", "o", "s", "e", "d", "_">>
                   \o inventory[k]]
      [] OTHER -> inventory

apply_zone_effects(st) ==
    [st EXCEPT !.player.inventory =
                  ZoneEffect(st.current_zone, st.player.inventory)]

\* The game state game_loop builds before its first frame.
InitialGameState ==
    LET initial_player ==
            Player(SCREEN_WIDTH \div 2, SCREEN_HEIGHT \div 2, <<>>)
        zones == create_zones
    IN  GameState(initial_player, zones,
                  get_zone_for_player(zones, initial_player))

\* ------------------------------------------------------------------------
\* State.
\* ------------------------------------------------------------------------
VARIABLES
    obstacles,   \* the obstacle list of main()
    robot,       \* robot[1] is robot1, robot[2] is robot2
    dt,          \* the frame time of the current tick
    pc,          \* where the main loop is within the tick
    target,      \* target[i]: the target robot i computed in its last update
    pre,         \* pre[i]: robot i's position when the current tick began
    mid,         \* mid[i]: robot i's position when the collision test ran
    respawned    \* "none" before the first test, else "yes" / "no"

\* The adventure game is a program of its own: its state stays as game_loop
\* builds it while the simulation runs, and the simulation's state stays as
\* constructed while the game runs.
VARIABLES
    state,       \* the GameState of game_loop()
    expected     \* the inventory the zone the player stands in would give

vars == <<obstacles, robot, dt, pc, target, pre, mid, respawned>>

gameVars == <<state, expected>>

robot1 == robot[1]

robot2 == robot[2]

Other(i) == 3 - i

Positions == <<robot[1].position, robot[2].position>>

\* Faulty variant: robot2 reads robot1 as it stood when the tick began.
EnemySnapshot(i) ==
    IF i = 2 THEN [robot[1] EXCEPT !.position = pre[1]] ELSE robot[2]

\* The enemy robot as the update of robot i reads it.
Enemy(i) == robot[Other(i)]

\* get_random_position accepts pos.
\* Faulty variant: the test of the sampling loop inverted.
AcceptsColliding(pos) == collides_with_obstacles(pos, obstacles, SPAWN_SIZE)

Accepts(pos) == ~collides_with_obstacles(pos, obstacles, SPAWN_SIZE)

InitRest ==
    /\ dt = 0
    /\ pc = "update1"
    /\ target = Positions
    /\ pre = Positions
    /\ mid = Positions
    /\ respawned = "none"
    /\ state = InitialGameState
    /\ expected = state.player.inventory

\* main() up to the loop: the obstacles are generated and each robot is
\* constructed at a result of get_random_position.
Init ==
    /\ obstacles \in {f \in FieldSet : Generated(f)}
    /\ \E p1 \in Samples, p2 \in Samples :
          /\ ~collides_with_obstacles(p1, obstacles, SPAWN_SIZE)
          /\ ~collides_with_obstacles(p2, obstacles, SPAWN_SIZE)
          /\ robot = <<Robot(p1, "red"), Robot(p2, "blue")>>
    /\ InitRest

\* Robot.update and its helpers called on arbitrary arguments: any of the
\* obstacle lists, any two positions.
InitFn ==
    /\ obstacles \in FieldSet
    /\ \E p1 \in Samples, p2 \in Samples :
          robot = <<Robot(p1, "red"), Robot(p2, "blue")>>
    /\ InitRest

\* Faulty variant: the target aliases the enemy's position (no copy) and the
\* direction is computed into it in place.
UpdateAliased(i) ==
    LET tgt == Target(robot[i], Enemy(i), obstacles)
    IN  /\ target' = [target EXCEPT ![i] = tgt]
        /\ robot' = [robot EXCEPT
                        ![i].position = Moved(robot[i], tgt, obstacles),
                        ![Other(i)].position =
                            IF can_see(robot[i], Enemy(i), obstacles)
                            THEN Sub(Enemy(i).position, robot[i].position)
                            ELSE @]

\* robot i .update(enemy, obstacles).
Update(i) ==
    LET tgt == Target(robot[i], Enemy(i), obstacles)
    IN  /\ target' = [target EXCEPT ![i] = tgt]
        /\ robot' = [robot EXCEPT
                        ![i].position = Moved(robot[i], tgt, obstacles)]

\* The start of a tick and robot1.update(robot2, obstacles).
Update1 ==
    /\ pc = "update1"
    /\ dt' \in DtValues
    /\ pre' = Positions
    /\ Update(1)
    /\ pc' = "update2"
    /\ UNCHANGED <<obstacles, mid, respawned, gameVars>>

\* robot2.update(robot1, obstacles).
Update2 ==
    /\ pc = "update2"
    /\ Update(2)
    /\ pc' = "collision"
    /\ UNCHANGED <<obstacles, dt, pre, mid, respawned, gameVars>>

\* Faulty variant: robots that exactly touch count as colliding.
RobotsCollideTouching ==
    Norm2(Sub(robot1.position, robot2.position)) <= robot1.size * robot1.size

\* np.linalg.norm(robot1.position - robot2.position) < robot1.size
RobotsCollide ==
    Norm2(Sub(robot1.position, robot2.position)) < robot1.size * robot1.size

\* The "one touch kills" test that follows the two updates.
CollisionCheck ==
    /\ pc = "collision"
    /\ mid' = Positions
    /\ IF RobotsCollide
       THEN pc' = "respawn1" /\ respawned' = "yes"
       ELSE pc' = "update1" /\ respawned' = "no"
    /\ UNCHANGED <<obstacles, robot, dt, target, pre, gameVars>>

\* One iteration of the loop of get_random_position for robot i: a point is
\* drawn; a colliding point is discarded and the loop goes round again.
Respawn(i) ==
    /\ pc = IF i = 1 THEN "respawn1" ELSE "respawn2"
    /\ \E pos \in Samples :
          IF Accepts(pos)
          THEN /\ robot' = [robot EXCEPT ![i].position = pos]
               /\ pc' = IF i = 1 THEN "respawn2" ELSE "update1"
          ELSE UNCHANGED <<robot, pc>>
    /\ UNCHANGED <<obstacles, dt, target, pre, mid, respawned, gameVars>>

Respawn1 == Respawn(1)

Respawn2 == Respawn(2)

Next == Update1 \/ Update2 \/ CollisionCheck \/ Respawn1 \/ Respawn2

Spec == Init /\ [][Next]_vars

SpecFn == InitFn /\ [][Next]_vars

\* The control flow of one pass of the main loop, respawns aside: the two
\* updates and the collision test always run to their end.
Proceed ==
    \/ pc = "update1" /\ pc' = "update2"
    \/ pc = "update2" /\ pc' = "collision"
    \/ pc = "collision" /\ pc' \in {"update1", "respawn1"}

\* The main loop keeps running (no QUIT event), and the sampling loop of
\* get_random_position draws every point of the arena eventually, so a
\* point it accepts is eventually drawn if there is one.
SpecFnFair ==
    SpecFn /\ WF_pc(Proceed) /\ WF_vars(Respawn1) /\ WF_vars(Respawn2)

\* ------------------------------------------------------------------------
\* The adventure game: game_loop().  Each KEYDOWN event of a frame is
\* handled in turn; current_zone is assigned once the frame's events are
\* all handled.
\* ------------------------------------------------------------------------
ItemNumbers == 1..MaxItemNumber

\* game_loop() up to the loop; the simulation is not running.
InitGame ==
    /\ obstacles = <<>>
    /\ robot = <<Robot(SamplePoints[1], "red"), Robot(SamplePoints[2], "blue")>>
    /\ InitRest

\* An arrow key: the player is moved, the inventory is untouched.
KeyArrow(dx, dy) ==
    /\ state' = [state EXCEPT !.player = move_player(state.player, dx, dy)]
    /\ expected' = state'.player.inventory
    /\ UNCHANGED vars

K_LEFT == KeyArrow(-MOVE_STEP, 0)

K_RIGHT == KeyArrow(MOVE_STEP, 0)

K_UP == KeyArrow(0, -MOVE_STEP)

K_DOWN == KeyArrow(0, MOVE_STEP)

\* 'A': a randomly named item is appended to the inventory.
K_a ==
    /\ Len(state.player.inventory) < MaxItems
    /\ \E n \in ItemNumbers :
          LET new_item == ItemName(n)
              new_inv == state.player.inventory \o <<new_item>>
          IN  state' = [state EXCEPT !.player.inventory = new_inv]
    /\ expected' = state'.player.inventory
    /\ UNCHANGED vars

\* 'E': the effect of state.current_zone is applied to the inventory.
K_e ==
    /\ \A k \in 1..Len(apply_zone_effects(state).player.inventory) :
          Len(apply_zone_effects(state).player.inventory[k]) <= MaxItemLen
    /\ state' = apply_zone_effects(state)
    /\ expected' = ZoneEffect(get_zone_for_player(state.zones, state.player),
                              state.player.inventory)
    /\ UNCHANGED vars

\* The end of a frame, after the event loop: current_zone is recomputed
\* from the player's position.
EndFrame ==
    /\ state' = [state EXCEPT
                    !.current_zone = get_zone_for_player(state.zones,
                                                         state.player)]
    /\ UNCHANGED <<expected, vars>>

NextGame == K_LEFT \/ K_RIGHT \/ K_UP \/ K_DOWN \/ K_a \/ K_e \/ EndFrame

SpecGame == InitGame /\ [][NextGame]_gameVars

\* ------------------------------------------------------------------------
\* Properties.
\* ------------------------------------------------------------------------

Dot(a, b) == a[1] * b[1] + a[2] * b[2]

Cross(a, b) == a[1] * b[2] - a[2] * b[1]

\* Robot i placed at position p.
At(i, p) == [robot[i] EXCEPT !.position = p]

\* C1: in every reachable state of the simulation neither robot's footprint
\* overlaps an obstacle's footprint.
C1_NoRobotInObstacle ==
    \A i \in 1..2 :
        ~collides_with_obstacles(robot[i].position, obstacles, robot[i].size)

\* C1 witness: in a tick after the first collision test, robot1's update has
\* just rejected a move toward a target more than epsilon away, because the
\* candidate position collides with an obstacle.
C1_Witness ==
    /\ pc = "update2"
    /\ respawned # "none"
    /\ Norm2(Sub(target[1], pre[1])) > EPSILON * EPSILON
    /\ robot[1].position = pre[1]
    /\ collides_with_obstacles(Add(pre[1], StepVector(At(1, pre[1]), target[1])),
                               obstacles, robot[1].size)

\* C2 as stated: after both updates, robot2's target and position are those
\* computed from the pre-tick snapshot of both positions.
C2_SnapshotUpdate ==
    pc = "collision" =>
        /\ target[2] = Target(At(2, pre[2]), At(1, pre[1]), obstacles)
        /\ robot[2].position = Moved(At(2, pre[2]), target[2], obstacles)

\* C2 amended: robot1 computes its target and move from the pre-tick
\* positions; robot2 computes its visibility test, target and move from its
\* own pre-tick position and robot1's already-updated position.
C2_SequentialUpdate ==
    pc = "collision" =>
        /\ target[1] = Target(At(1, pre[1]), At(2, pre[2]), obstacles)
        /\ robot[1].position = Moved(At(1, pre[1]), target[1], obstacles)
        /\ target[2] = Target(At(2, pre[2]), robot[1], obstacles)
        /\ robot[2].position = Moved(At(2, pre[2]), target[2], obstacles)

\* C2 witness: robot1 moved in this tick and robot2's target differs from the
\* one the pre-tick snapshot would have given.
C2_Witness ==
    /\ pc = "collision"
    /\ robot[1].position # pre[1]
    /\ target[2] = Target(At(2, pre[2]), robot[1], obstacles)
    /\ target[2] # Target(At(2, pre[2]), At(1, pre[1]), obstacles)

\* C3: the robots are respawned iff, after both have moved, their distance is
\* strictly less than robot1.size; a tick that respawns ends with both robots
\* at newly drawn positions that collide with no obstacle, a tick that does
\* not leaves both where their updates put them.
C3_RespawnIffTouching ==
    respawned # "none" =>
        /\ (respawned = "yes") <=>
               (Norm2(Sub(mid[1], mid[2])) < robot[1].size * robot[1].size)
        /\ (pc \in {"respawn1", "respawn2"}) => respawned = "yes"
        /\ (pc = "update1" /\ respawned = "yes") =>
               \A i \in 1..2 :
                   /\ robot[i].position \in Samples
                   /\ ~collides_with_obstacles(robot[i].position, obstacles,
                                               robot[i].size)
        /\ (pc = "update1" /\ respawned = "no") => Positions = mid

\* C3 witness: a tick has ended with both robots respawned away from where
\* they touched.
C3_Witness ==
    /\ pc = "update1"
    /\ respawned = "yes"
    /\ Norm2(Sub(mid[1], mid[2])) > 0
    /\ robot[1].position # mid[1]
    /\ robot[2].position # mid[2]

\* C4: the point find_hiding_spot returns does not collide with any obstacle
\* of the list, for a square of the robot's size.
C4_HidingSpotClear ==
    \A i \in 1..2 :
        ~collides_with_obstacles(
            find_hiding_spot(robot[i], robot[Other(i)], obstacles),
            obstacles, robot[i].size)

\* C5: visibility is symmetric, and so is the segment test for every
\* obstacle of the list.
C5_VisibilitySymmetric ==
    /\ can_see(robot1, robot2, obstacles) = can_see(robot2, robot1, obstacles)
    /\ \A k \in 1..Len(obstacles) :
          line_intersects_box(robot1.position, robot2.position,
                              obstacles[k].position, obstacles[k].size)
          = line_intersects_box(robot2.position, robot1.position,
                                obstacles[k].position, obstacles[k].size)

\* C5 witness: of two obstacles one blocks the segment between two robots at
\* different positions and the other does not, and the robots do not see each
\* other in either direction.
C5_Witness ==
    /\ robot1.position # robot2.position
    /\ ~can_see(robot1, robot2, obstacles)
    /\ ~can_see(robot2, robot1, obstacles)
    /\ \E j, k \in 1..Len(obstacles) :
          /\ line_intersects_box(robot2.position, robot1.position,
                                 obstacles[j].position, obstacles[j].size)
          /\ ~line_intersects_box(robot2.position, robot1.position,
                                  obstacles[k].position, obstacles[k].size)

\* The segment from p1 to p2 passes through the interior of the square
\* centred at box_center with edge box_size: no axis separates them (the two
\* axes of the square and the normal of the segment), all sides doubled.
PassesThrough(p1, p2, box_center, box_size) ==
    LET m == <<p1[1] + p2[1] - 2 * box_center[1],
               p1[2] + p2[2] - 2 * box_center[2]>>
        e == Sub(p2, p1)
    IN  /\ Abs(m[1]) < Abs(e[1]) + box_size
        /\ Abs(m[2]) < Abs(e[2]) + box_size
        /\ e # <<0, 0>> =>
               Abs(Cross(m, e)) < box_size * (Abs(e[1]) + Abs(e[2]))

\* C6: line_intersects_box is true whenever the segment passes through the
\* square, so that when can_see is true no obstacle's footprint is crossed
\* by the segment joining the robots.
C6_SegmentTestExact ==
    /\ \A k \in 1..Len(obstacles) :
          PassesThrough(robot1.position, robot2.position,
                        obstacles[k].position, obstacles[k].size)
          => line_intersects_box(robot1.position, robot2.position,
                                 obstacles[k].position, obstacles[k].size)
    /\ can_see(robot1, robot2, obstacles) =>
          \A k \in 1..Len(obstacles) :
              ~PassesThrough(robot1.position, robot2.position,
                             obstacles[k].position, obstacles[k].size)

\* The robot whose update ran last, and the enemy as that update read it:
\* robot1 (before robot2 moves) at "update2", robot2 at "collision".
Updated == IF pc = "update2" THEN 1 ELSE 2

AfterUpdate == pc \in {"update2", "collision"}

\* The updated robot as it stood when its update began.
Before == At(Updated, pre[Updated])

\* C7: the target of update is the enemy's position when can_see is true and
\* the result of find_hiding_spot otherwise; with an empty obstacle list
\* can_see is true and the target is the enemy's position.
C7_TargetRule ==
    /\ obstacles = << >> =>
          /\ can_see(robot1, robot2, obstacles)
          /\ can_see(robot2, robot1, obstacles)
    /\ AfterUpdate =>
          /\ obstacles = << >> =>
                target[Updated] = robot[Other(Updated)].position
          /\ can_see(Before, robot[Other(Updated)], obstacles) =>
                target[Updated] = robot[Other(Updated)].position
          /\ ~can_see(Before, robot[Other(Updated)], obstacles) =>
                target[Updated] =
                    find_hiding_spot(Before, robot[Other(Updated)], obstacles)

\* C7 witness: with an empty obstacle list robot1 has just stepped toward
\* robot2's position, its target.
C7_Witness ==
    /\ pc = "update2"
    /\ obstacles = << >>
    /\ target[1] = robot[2].position
    /\ robot[1].position # pre[1]
    /\ robot[1].position = Add(pre[1], StepVector(Before, robot[2].position))

\* The obstacles whose centre differs from the enemy's position.
Usable(enemy) ==
    {k \in 1..Len(obstacles) : obstacles[k].position # enemy.position}

\* cand lies on the ray from the enemy through the centre of obs, at distance
\* obs.size / 2 + self.size / 2 + 1.0 beyond the centre, to within the
\* rounding of one hundredth per coordinate.
OnRayBehind(cand, self, enemy, obs) ==
    LET ray == Sub(obs.position, enemy.position)
        off == Sub(cand, obs.position)
        len2 == obs.size + self.size + 2 * HIDE_MARGIN
    IN  /\ Dot(off, ray) > 0
        /\ Abs(Cross(off, ray)) <= Abs(ray[1]) + Abs(ray[2])
        /\ (len2 - 2) * (len2 - 2) <= 4 * Norm2(off)
        /\ 4 * Norm2(off) <= (len2 + 2) * (len2 + 2)

\* C8: when some obstacle's centre differs from the enemy's position,
\* find_hiding_spot returns one of the candidates, each on the ray from the
\* enemy through its obstacle's centre at the offset beyond it, and none of
\* the candidates is closer to the robot.
C8_ClosestCandidate ==
    \A i \in 1..2 :
        \A spot \in {find_hiding_spot(robot[i], robot[Other(i)], obstacles)} :
            \A cands \in {[k \in Usable(robot[Other(i)]) |->
                             Candidate(robot[i], robot[Other(i)], obstacles[k])]} :
                Usable(robot[Other(i)]) # {} =>
                    /\ \E k \in Usable(robot[Other(i)]) : spot = cands[k]
                    /\ \A k \in Usable(robot[Other(i)]) :
                          /\ OnRayBehind(cands[k], robot[i], robot[Other(i)],
                                         obstacles[k])
                          /\ Norm2(Sub(spot, robot[i].position))
                                 <= Norm2(Sub(cands[k], robot[i].position))

\* C8 witness: robot1 has several candidates at different distances, and the
\* one chosen is strictly closer than the first obstacle's.
C8_Witness ==
    /\ Len(obstacles) >= 2
    /\ Usable(robot2) = 1..Len(obstacles)
    /\ Norm2(Sub(find_hiding_spot(robot1, robot2, obstacles), robot1.position))
           < Norm2(Sub(Candidate(robot1, robot2, obstacles[1]), robot1.position))

\* C9: a robot whose target lies within epsilon of its position does not
\* move; find_hiding_spot without a candidate returns the robot's own
\* position, and a robot that hides without a candidate does not move.
C9_HoldPosition ==
    /\ \A i \in 1..2 :
          Usable(robot[Other(i)]) = {} =>
              find_hiding_spot(robot[i], robot[Other(i)], obstacles)
                  = robot[i].position
    /\ AfterUpdate =>
          /\ Norm2(Sub(target[Updated], pre[Updated])) <= EPSILON * EPSILON =>
                robot[Updated].position = pre[Updated]
          /\ (/\ ~can_see(Before, robot[Other(Updated)], obstacles)
              /\ Usable(robot[Other(Updated)]) = {}) =>
                /\ target[Updated] = pre[Updated]
                /\ robot[Updated].position = pre[Updated]

\* C9 witness: robot1 has just held its position with a target that is
\* within epsilon of it but is not its own position.
C9_Witness ==
    /\ pc = "update2"
    /\ target[1] # pre[1]
    /\ Norm2(Sub(target[1], pre[1])) <= EPSILON * EPSILON
    /\ robot[1].position = pre[1]

\* C10: in a tick each robot is moved at most once, and when the tick does
\* not respawn its displacement is zero or one step of length speed (to
\* within the rounding of one hundredth) toward its target, also when the
\* target is closer than speed.
C10_OneFullStep ==
    /\ pc = "update2" => robot[2].position = pre[2]
    /\ \A i \in 1..2 :
          (pc = "collision" \/ (i = 1 /\ pc = "update2")) =>
              LET disp == Sub(robot[i].position, pre[i])
                  speed == robot[i].speed
              IN  \/ disp = <<0, 0>>
                  \/ /\ disp = StepVector(At(i, pre[i]), target[i])
                     /\ Dot(disp, Sub(target[i], pre[i])) > 0
                     /\ (speed - 1) * (speed - 1) <= Norm2(disp)
                     /\ Norm2(disp) <= (speed + 1) * (speed + 1)
    /\ (pc = "update1" /\ respawned = "no") => Positions = mid

\* C10 witness: robot1 has just stepped a full speed length toward a target
\* that was closer than speed, in a tick whose collision test will not
\* respawn.
C10_Witness ==
    /\ pc = "update2"
    /\ robot[1].position # pre[1]
    /\ Norm2(Sub(target[1], pre[1])) < robot[1].speed * robot[1].speed
    /\ Norm2(Sub(robot[1].position, pre[1]))
           >= (robot[1].speed - 1) * (robot[1].speed - 1)
    /\ Norm2(Sub(robot[1].position, robot[2].position))
           >= robot[1].size * robot[1].size

\* ------------------------------------------------------------------------
\* get_random_position: exhaustion and termination.
\* ------------------------------------------------------------------------
Respawning == pc \in {"respawn1", "respawn2"}

\* Some point the sampler can draw is clear of every obstacle.
FreePositionExists ==
    \E pos \in Samples : ~collides_with_obstacles(pos, obstacles, SPAWN_SIZE)

C12_SamplingTerminates ==
    /\ []((pc = "update1" /\ respawned = "yes") =>
              \A i \in 1..2 :
                 ~collides_with_obstacles(robot[i].position, obstacles,
                                          SPAWN_SIZE))
    /\ []((Respawning /\ FreePositionExists) => <>(pc = "update1"))

C12_Witness ==
    /\ pc = "update1"
    /\ respawned = "yes"
    /\ Positions # mid
    /\ \E pos \in Samples : collides_with_obstacles(pos, obstacles, SPAWN_SIZE)

\* ------------------------------------------------------------------------
\* What an update and a respawn leave alone.
\* ------------------------------------------------------------------------
\* C13: A.update(B, obstacles) changes at most A's position, the collision
\* test changes nothing, a respawn changes only positions (robot1's, then
\* robot2's), and no step changes an obstacle or a robot's speed, size or
\* color: the obstacle list stays the field generated at the start.
C13_Frame ==
    [][ /\ obstacles' = obstacles
        /\ \A i \in 1..2 :
              /\ robot'[i].speed = robot[i].speed
              /\ robot'[i].size = robot[i].size
              /\ robot'[i].color = robot[i].color
        /\ (pc \in {"update1", "respawn1"} => robot2' = robot2)
        /\ (pc \in {"update2", "respawn2"} => robot1' = robot1)
        /\ (pc = "collision" => robot' = robot) ]_vars

\* robot1 has just moved in its update, with obstacles on the field, while
\* robot2 is where the tick found it.
C13_Witness ==
    /\ pc = "update2"
    /\ robot1.position # pre[1]
    /\ robot2.position = pre[2]
    /\ Len(obstacles) = NUM_OBSTACLES

\* ------------------------------------------------------------------------
\* collides_with_obstacles as a predicate on squares.
\* ------------------------------------------------------------------------
\* The open squares of side obj_size about pos and of side obs.size about
\* the obstacle's centre share a point (coordinates doubled).
InteriorsMeet(pos, obs, obj_size) ==
    \A a \in 1..2 :
       /\ 2 * pos[a] - obj_size < 2 * obs.position[a] + obs.size
       /\ 2 * obs.position[a] - obs.size < 2 * pos[a] + obj_size

\* The two squares meet, but only along an edge or at a corner.
EdgesTouch(pos, obs, obj_size) ==
    /\ \A a \in 1..2 :
          2 * Abs(pos[a] - obs.position[a]) <= obs.size + obj_size
    /\ \E a \in 1..2 :
          2 * Abs(pos[a] - obs.position[a]) = obs.size + obj_size

\* The positions the program tests: where the robots are, the targets they
\* computed, and the points the sampler draws.
TestedPositions ==
    {robot1.position, robot2.position, target[1], target[2]} \cup Samples

TestedSizes == {0, ROBOT_SIZE, 2 * ROBOT_SIZE}

\* C14: collides_with_obstacles is true exactly when the square about pos
\* overlaps some obstacle's square with both axis distances strictly below
\* the sum of the half sizes; squares that only touch do not collide, and
\* nothing collides with an empty obstacle list.
C14_StrictOverlap ==
    \A pos \in TestedPositions, obj_size \in TestedSizes :
       /\ collides_with_obstacles(pos, obstacles, obj_size) <=>
              \E k \in 1..Len(obstacles) :
                 InteriorsMeet(pos, obstacles[k], obj_size)
       /\ \A k \in 1..Len(obstacles) :
              EdgesTouch(pos, obstacles[k], obj_size) =>
                 ~Overlaps(pos, obstacles[k], obj_size)
       /\ obstacles = <<>> =>
              ~collides_with_obstacles(pos, obstacles, obj_size)

\* A robot stands edge to edge with an obstacle and is not colliding.
C14_Witness ==
    \E i \in 1..2 :
       /\ \E k \in 1..Len(obstacles) :
             EdgesTouch(robot[i].position, obstacles[k], robot[i].size)
       /\ ~collides_with_obstacles(robot[i].position, obstacles, robot[i].size)
       /\ robot[i].position # pre[i]

\* ------------------------------------------------------------------------
\* Pursuit on an empty field.
\* ------------------------------------------------------------------------
Distance2 == Norm2(Sub(robot1.position, robot2.position))

\* C17: with no obstacles each robot's target is the other robot, a tick
\* that begins with the robots at least robot1.size apart ends with them
\* strictly closer, and a tick in which the collision is detected and the
\* robots respawn always comes.
C17_PursuitEndsInCollision ==
    /\ []((obstacles = <<>> /\ pc = "collision") =>
              /\ target[1] = pre[2]
              /\ target[2] = robot1.position
              /\ (Norm2(Sub(pre[1], pre[2])) >= robot1.size * robot1.size
                     => Distance2 < Norm2(Sub(pre[1], pre[2]))))
    /\ []((obstacles = <<>> /\ pc = "update1") => <>(pc = "respawn1"))
    /\ []((obstacles = <<>> /\ pc = "respawn1") =>
              <>(pc = "update1" /\ respawned = "yes"))

\* The collision has just been detected at the end of a pursuit: the tick
\* began with the robots apart.
C17_Witness ==
    /\ obstacles = <<>>
    /\ pc = "respawn1"
    /\ respawned = "yes"
    /\ Norm2(Sub(pre[1], pre[2])) >= robot1.size * robot1.size
    /\ robot1.position # pre[1]
    /\ robot2.position # pre[2]

\* ------------------------------------------------------------------------
\* The adventure game.
\* ------------------------------------------------------------------------
\* C15 (as claimed): the effect 'E' applies is the effect of the zone that
\* contains the player when 'E' is handled: after every event the
\* inventory is the one that zone's effect gives.
C15_EffectOfPlayersZone == state.player.inventory = expected

ZoneTypes == {ZONE_MAP, ZONE_FILTER, ZONE_REDUCE, ZONE_COMPOSE}

\* C16 (as claimed): the player stays within the screen, and wherever the
\* arrow keys take the player from the centre, get_zone_for_player returns
\* one of the four zone types, never -1.
C16_ZonesCoverReach ==
    /\ state.player.x \in 0..SCREEN_WIDTH
    /\ state.player.y \in 0..SCREEN_HEIGHT
    /\ get_zone_for_player(state.zones, state.player) \in ZoneTypes
====
